---- MODULE Spec2Model ----
(***************************************************************************)
(* Model of generate_future_projections_from_point (src/data_utils.py),    *)
(* the pattern-analogy projection engine.                                  *)
(*                                                                         *)
(* One call of the function is a small state machine: the arguments are    *)
(* fixed in Init, and the actions are the phases of the function body in   *)
(* program order (entry checks and pattern extraction, one iteration of    *)
(* the candidate-length loop, selection, one iteration of the projection   *)
(* loop, return).  Positions and indices keep Python's 0-based values; the *)
(* operator At converts when a TLA+ sequence is indexed.                   *)
(*                                                                         *)
(* Prices of the history are integers.  Projected prices are kept as exact *)
(* fractions <<num, den>> (the code uses binary floating point; rounding   *)
(* is not modelled).  A date string of format "%d-%b-%Y %H:%M" is a record *)
(* [day, hour, minute], datetime values are minutes since day 0, and       *)
(* strptime / strftime convert between the two.                            *)
(***************************************************************************)
EXTENDS Integers, Sequences, FiniteSets, TLC

VARIABLES stock_data, start_idx, future_points, num_lines,
          pc, pattern_length, result_string, length, index_dict,
          matched_keys, future_projections, result

vars == <<stock_data, start_idx, future_points, num_lines,
          pc, pattern_length, result_string, length, index_dict,
          matched_keys, future_projections, result>>

\* ------------------------------------------------------------------ bounds
MaxLen == 25
MaxHorizon == 10
MaxLines == 2

\* ------------------------------------------------------- program constants
\* min(8, start_idx) and min(len(result_string), 8): the trailing-window cap
WindowCap == 8
\* max(5, ...): the candidate-length loop stops above this value
LoopStop == 5
MinutesPerHour == 60
MinutesPerDay == 1440

\* ------------------------------------------------------------------ helpers
Min(x, y) == IF x <= y THEN x ELSE y
Max(x, y) == IF x >= y THEN x ELSE y

\* Python's seq[i] for 0 <= i < len(seq)
At(seq, i) == seq[i + 1]

\* Python's seq[:k] for any integer k (a negative k counts from the end)
SliceTo(seq, k) ==
    IF k >= 0 THEN SubSeq(seq, 1, Min(k, Len(seq)))
    ELSE SubSeq(seq, 1, Max(0, Len(seq) + k))

\* Python's seq[-k:] for k >= 1
SliceLast(seq, k) == SubSeq(seq, Max(1, Len(seq) - k + 1), Len(seq))

\* datetime.strptime(s, "%d-%b-%Y %H:%M"), as minutes since day 0
Strptime(s) == s.day * MinutesPerDay + s.hour * MinutesPerHour + s.minute

\* dt.strftime("%d-%b-%Y %H:%M")
Strftime(m) == [day    |-> m \div MinutesPerDay,
                hour   |-> (m % MinutesPerDay) \div MinutesPerHour,
                minute |-> m % MinutesPerHour]

EntryRejectsOffByOne(data, a) == Len(data) = 0 \/ a > Len(data)

\* not stock_data or start_idx >= len(stock_data)
EntryRejects(data, a) == Len(data) = 0 \/ a >= Len(data)

\* seq[i] does not raise IndexError (i >= 0)
ValidIndex(seq, i) == i < Len(seq)

\* 'U' if later >= earlier else 'D'
Symbol(earlier, later) == IF later >= earlier THEN "U" ELSE "D"

\* result_string: the movement string of pattern_data
MovementString(data) ==
    [i \in 1..(Len(data) - 1) |-> Symbol(data[i].close, data[i + 1].close)]

\* search_string: movements of stock_data for i in range(1, max(1, n - pl))
SearchString(data, pl) ==
    [i \in 1..(Max(1, Len(data) - pl) - 1) |->
        Symbol(data[i].close, data[i + 1].close)]

\* [m.start() for m in re.finditer(re.escape(needle), hay)], scanning from s
RECURSIVE FindIter(_, _, _)
FindIter(needle, hay, s) ==
    IF s + Len(needle) > Len(hay) THEN <<>>
    ELSE IF SubSeq(hay, s + 1, s + Len(needle)) = needle
         THEN <<s>> \o FindIter(needle, hay, s + Len(needle))
         ELSE FindIter(needle, hay, s + 1)

\* string_to_match = result_string[-length:]
StringToMatchHead(rs, len) == SubSeq(rs, 1, Min(len, Len(rs)))

StringToMatch(rs, len) == SliceLast(rs, len)

DictKeys(dict) == {dict[i].key : i \in 1..Len(dict)}

QualifiesAnywhere(dict, m, pl, a) == m \notin DictKeys(dict)

QualifiesAgain(dict, m, pl, a) == m + pl < a

QualifiesUpToAnchor(dict, m, pl, a) == m \notin DictKeys(dict) /\ m + pl <= a

\* the guard of line 120
Qualifies(dict, m, pl, a) == m \notin DictKeys(dict) /\ m + pl < a

\* the loop of lines 119-121 over the matches from index j on
RECURSIVE RecordMatches(_, _, _, _, _, _)
RecordMatches(dict, matches, j, len, pl, a) ==
    IF j > Len(matches) THEN dict
    ELSE RecordMatches(
            IF Qualifies(dict, matches[j], pl, a)
            THEN Append(dict, [key |-> matches[j], length |-> len])
            ELSE dict,
            matches, j + 1, len, pl, a)

AcceptedSingle(matches) == Len(matches) >= 1

\* len(matches) > 1
Accepted(matches) == Len(matches) > 1

\* one iteration of the loop of line 104, for candidate length len
SearchStep(dict, data, rs, len, pl, a) ==
    LET string_to_match == StringToMatch(rs, len)
        search_string   == SearchString(data, pl)
        matches         == FindIter(string_to_match, search_string, 0)
    IN  IF Accepted(matches)
        THEN RecordMatches(dict, matches, 1, len, pl, a)
        ELSE dict

PriceChangeForward(pk, pk1) == <<pk1 - pk, pk1>>

\* (stock_data[k]["close"] - stock_data[k+1]["close"]) / stock_data[k+1]["close"]
\* as the exact fraction <<numerator, denominator>>; pk1 # 0
PriceChange(pk, pk1) == <<pk - pk1, pk1>>

\* future_prices[-1] * (1 + price_change), as an exact fraction
NextPrice(prev, pk, pk1) ==
    LET change == PriceChange(pk, pk1)
    IN  <<prev[1] * (change[2] + change[1]), prev[2] * change[2]>>

\* delta = curr_date - next_date of lines 148-150
StepDelta(data) == Strptime(At(data, 0).date) - Strptime(At(data, 1).date)

\* abs((date2 - date1).total_seconds() / 60) of lines 163-165
FallbackInterval(data) ==
    LET d == Strptime(At(data, 1).date) - Strptime(At(data, 0).date)
    IN  IF d >= 0 THEN d ELSE 0 - d

\* the date appended at step i (lines 145-169); last is future_dates[-1]
NextDate(data, a, i, last) ==
    IF i > 0
    THEN IF Len(data) > 1 THEN last + StepDelta(data)
                          ELSE last + MinutesPerHour
    ELSE IF a + 1 < Len(data) THEN Strptime(At(data, a + 1).date)
         ELSE IF Len(data) > 1 THEN last + FallbackInterval(data)
                               ELSE last + MinutesPerHour

InRangeEarly(data, pattern_idx) == pattern_idx + 2 < Len(data)

\* pattern_idx + 1 < len(stock_data)
InRange(data, pattern_idx) == pattern_idx + 1 < Len(data)

\* the loop of lines 138-169 from step i on; raised: ZeroDivisionError at line 141
RECURSIVE Replay(_, _, _, _, _, _, _)
Replay(data, a, start, h, i, prices, dates) ==
    IF i >= h THEN [raised |-> FALSE, prices |-> prices, dates |-> dates]
    ELSE LET pattern_idx == start + i
         IN  IF InRange(data, pattern_idx)
             THEN IF At(data, pattern_idx + 1).close = 0
                  THEN [raised |-> TRUE, prices |-> prices, dates |-> dates]
                  ELSE Replay(data, a, start, h, i + 1,
                          Append(prices,
                                 NextPrice(prices[Len(prices)],
                                           At(data, pattern_idx).close,
                                           At(data, pattern_idx + 1).close)),
                          Append(dates,
                                 NextDate(data, a, i, dates[Len(dates)])))
             ELSE Replay(data, a, start, h, i + 1, prices, dates)

FutureLineNoAnchor(prices, dates) ==
    [i \in 1..(Len(prices) - 1) |->
        [date |-> Strftime(dates[i + 1]), close |-> prices[i + 1]]]

\* future_line of line 172
FutureLine(prices, dates) ==
    [i \in 1..Len(prices) |-> [date |-> Strftime(dates[i]), close |-> prices[i]]]

\* the dictionary appended at lines 174-178.  key is a ghost field: the match
\* position the projection replays from (the code does not return it).
Projection(data, a, entry, line) ==
    [label          |-> <<a + 1, Len(data)>>,
     data           |-> line,
     pattern_length |-> entry.length,
     key            |-> entry.key]

\* ------------------------------------------------------------------ inputs
\* price cycles the histories repeat
Words == {<<1>>, <<1, 2>>, <<1, 1, 2>>}

\* sampling interval of the history in minutes ("1h")
Interval == 60

\* date of point i of a history of n points: ascending, or newest first
DateAt(i, n, ord) ==
    IF ord = "asc" THEN MinutesPerDay + i * Interval
                   ELSE MinutesPerDay + (n - i) * Interval

\* a history of n points: the cycle w, with price 0 at index zero_at (-1: none)
History(n, w, zero_at, ord) ==
    [i \in 1..n |->
        [date  |-> Strftime(DateAt(i - 1, n, ord)),
         close |-> IF i - 1 = zero_at THEN 0 ELSE w[((i - 1) % Len(w)) + 1]]]

\* the timestamp orders and zero positions of the histories of n points
Shapes(n) == {<<"asc", z>> : z \in (-1)..(n - 1)} \cup {<<"desc", 0 - 1>>}

Horizons == {0 - 1, 0, 2, MaxHorizon}
Lines == (-1)..MaxLines

NoResult == <<"none">>

Init ==
    /\ \E n \in 0..MaxLen, w \in Words :
         \E shape \in Shapes(n) :
            stock_data = History(n, w, shape[2], shape[1])
    /\ start_idx \in 0..Len(stock_data)
    /\ future_points \in Horizons
    /\ num_lines \in Lines
    /\ pc = "entry"
    /\ pattern_length = 0
    /\ result_string = <<>>
    /\ length = 0
    /\ index_dict = <<>>
    /\ matched_keys = <<>>
    /\ future_projections = <<>>
    /\ result = NoResult

\* ----------------------------------------------------------------- actions
\* lines 85-100: entry checks and pattern extraction
Entry ==
    /\ pc = "entry"
    /\ IF EntryRejects(stock_data, start_idx)
       THEN /\ pc' = "done"
            /\ result' = <<>>
            /\ UNCHANGED <<pattern_length, result_string, length>>
       ELSE LET data_subset  == SliceTo(stock_data, start_idx + 1)
                pl           == Min(WindowCap, start_idx)
                pattern_data == SliceLast(data_subset, pl + 1)
            IN  IF Len(pattern_data) <= 1
                THEN /\ pc' = "done"
                     /\ result' = <<>>
                     /\ UNCHANGED <<pattern_length, result_string, length>>
                ELSE /\ pattern_length' = pl
                     /\ result_string' = MovementString(pattern_data)
                     /\ length' = Min(Len(MovementString(pattern_data)), WindowCap)
                     /\ pc' = "search"
                     /\ UNCHANGED result
    /\ UNCHANGED <<stock_data, start_idx, future_points, num_lines,
                   index_dict, matched_keys, future_projections>>

\* range(min(len(rs), 8), max(5, min(len(rs) - 1, 5)), -1) still has a value
LoopRuns(len, rs) == len > Max(LoopStop, Min(Len(rs) - 1, LoopStop))

\* lines 104-121: one iteration of the candidate-length loop
SearchLength ==
    /\ pc = "search"
    /\ LoopRuns(length, result_string)
    /\ IF length <= 0
       THEN UNCHANGED <<index_dict, pc, result>>
       ELSE IF Len(stock_data) <= 1
            THEN /\ pc' = "done"
                 /\ result' = <<>>
                 /\ UNCHANGED index_dict
            ELSE /\ index_dict' = SearchStep(index_dict, stock_data, result_string,
                                             length, pattern_length, start_idx)
                 /\ UNCHANGED <<pc, result>>
    /\ length' = length - 1
    /\ UNCHANGED <<stock_data, start_idx, future_points, num_lines,
                   pattern_length, result_string, matched_keys, future_projections>>

\* lines 124-130: the loop is over; read the anchor (IndexError when it is out
\* of range) and take the first num_lines recorded keys
Select ==
    /\ pc = "search"
    /\ ~LoopRuns(length, result_string)
    /\ IF ValidIndex(stock_data, start_idx)
       THEN /\ matched_keys' = SliceTo(index_dict, num_lines)
            /\ pc' = "project"
       ELSE /\ pc' = "raised"
            /\ UNCHANGED matched_keys
    /\ UNCHANGED <<stock_data, start_idx, future_points, num_lines,
                   pattern_length, result_string, length, index_dict,
                   future_projections, result>>

\* lines 132-178: one iteration of the projection loop, for the next key
BuildProjection ==
    /\ pc = "project"
    /\ Len(future_projections) < Len(matched_keys)
    /\ LET entry == matched_keys[Len(future_projections) + 1]
           start_point == At(stock_data, start_idx)
           run == Replay(stock_data, start_idx, entry.key + entry.length,
                         future_points, 0,
                         <<<<start_point.close, 1>>>>,
                         <<Strptime(start_point.date)>>)
       IN  IF run.raised
           THEN /\ pc' = "raised"
                /\ UNCHANGED future_projections
           ELSE /\ future_projections' =
                      Append(future_projections,
                             Projection(stock_data, start_idx, entry,
                                        FutureLine(run.prices, run.dates)))
                /\ UNCHANGED pc
    /\ UNCHANGED <<stock_data, start_idx, future_points, num_lines,
                   pattern_length, result_string, length, index_dict,
                   matched_keys, result>>

\* line 180
Return ==
    /\ pc = "project"
    /\ Len(future_projections) = Len(matched_keys)
    /\ result' = future_projections
    /\ pc' = "done"
    /\ UNCHANGED <<stock_data, start_idx, future_points, num_lines,
                   pattern_length, result_string, length, index_dict,
                   matched_keys, future_projections>>

Next == Entry \/ SearchLength \/ Select \/ BuildProjection \/ Return

Spec == Init /\ [][Next]_vars

\* ------------------------------------------------------------ properties
\* Definitions shared by the properties.  They restate the history from the
\* arguments alone, without the working variables of the call.
Price(i) == At(stock_data, i).close

\* movement between history[i] and history[i+1]: Up when the price did not fall
Move(i) == IF Price(i + 1) >= Price(i) THEN "U" ELSE "D"

Window == Min(8, start_idx)
CandidateLengths == {L \in 6..8 : L <= Window}

\* the trailing L movements before the anchor
Needle(L) == [j \in 1..L |-> Move(start_idx - L + j - 1)]

\* the movements of the history outside its last Window + 1 points
Haystack == [s \in 1..Max(0, Len(stock_data) - Window - 1) |-> Move(s - 1)]

Occurrences(L) == FindIter(Needle(L), Haystack, 0)
OccurrenceSet(L) == {Occurrences(L)[i] : i \in 1..Len(Occurrences(L))}

\* positions a candidate length records, given its occurrences occ: none
\* unless there is more than one occurrence, and then those before the anchor
RecordedOf(occ) ==
    IF Len(occ) > 1
    THEN {occ[i] : i \in {j \in 1..Len(occ) : occ[j] + Window < start_idx}}
    ELSE {}

Recorded(L) == IF L \in CandidateLengths THEN RecordedOf(Occurrences(L)) ELSE {}

AllRecorded == Recorded(8) \cup Recorded(7) \cup Recorded(6)

Returned == pc = "done"
AnchorInRange == start_idx < Len(stock_data)

\* C1: every returned projection reports a pattern length between 6 and 8, and
\* its match position is a literal occurrence of the query suffix of that
\* length: the L movements from the position equal the L movements before the
\* anchor, equal prices counting as Up.
C1_GenuineMatch ==
    Returned =>
        \A i \in 1..Len(result) :
            LET p == result[i].key
                L == result[i].pattern_length
            IN  /\ L \in 6..8
                /\ \A j \in 0..(L - 1) : Move(p + j) = Move(start_idx - L + j)

C1_Witness ==
    /\ Returned
    /\ \E i, k \in 1..Len(result) :
          /\ result[i].pattern_length = 8
          /\ result[k].pattern_length = 6
          /\ \E j \in 0..5 :
                Price(result[k].key + j) = Price(result[k].key + j + 1)

\* C2: no returned projection has a match that reaches the anchor: position
\* plus reported pattern length is strictly below the anchor index.
C2_NoLookAhead ==
    Returned =>
        \A i \in 1..Len(result) :
            result[i].key + result[i].pattern_length < start_idx

C2_Witness ==
    /\ Returned
    /\ start_idx + 1 < Len(stock_data)
    /\ \E i \in 1..Len(result) :
          result[i].key + result[i].pattern_length + 1 = start_idx

\* C3: for max_lines >= 1 the result is the prefix of the discovery sequence
\* (longer lengths first, then increasing position; a position keeps the
\* longest length that recorded it): it has min(max_lines, recorded) entries
\* and entry i is the recorded position of rank i - 1 with its kept length.
C3_PrefixOfDiscovery ==
    (Returned /\ AnchorInRange /\ num_lines >= 1) =>
        LET r8 == Recorded(8)
            r7 == Recorded(7)
            r6 == Recorded(6)
            all == r8 \cup r7 \cup r6
            kept(p) == IF p \in r8 THEN 8 ELSE IF p \in r7 THEN 7 ELSE 6
            before(p, q) == kept(p) > kept(q) \/ (kept(p) = kept(q) /\ p < q)
            rank(p) == Cardinality({q \in all : before(q, p)})
        IN  /\ Len(result) = Min(num_lines, Cardinality(all))
            /\ \A i \in 1..Len(result) :
                  /\ result[i].key \in all
                  /\ rank(result[i].key) = i - 1
                  /\ result[i].pattern_length = kept(result[i].key)

C3_Witness ==
    /\ Returned
    /\ AnchorInRange
    /\ num_lines = 1
    /\ Len(result) = 1
    /\ Cardinality(AllRecorded) >= 3
    /\ result[1].key \in Recorded(8) \cap Recorded(7)
    /\ \E q \in Recorded(8) : q > result[1].key

\* C4: when no candidate length has more than one non-overlapping occurrence
\* of its needle in the haystack, the call returns the empty list.
C4_UniquenessFilter ==
    \/ /\ pc # "raised"
       /\ future_projections = <<>>
       /\ Returned => result = <<>>
    \/ ~AnchorInRange
    \/ \E L \in CandidateLengths : Len(Occurrences(L)) > 1

C4_Witness ==
    /\ Returned
    /\ AnchorInRange
    /\ future_points >= 1
    /\ num_lines >= 1
    /\ \A L \in CandidateLengths : Len(Occurrences(L)) <= 1
    /\ \E L \in CandidateLengths :
          /\ Len(Occurrences(L)) = 1
          /\ Occurrences(L)[1] + Window < start_idx

\* timestamps of the history, in minutes
Stamp(i) == Strptime(At(stock_data, i).date)

StrictlyAscending ==
    \A i \in 0..(Len(stock_data) - 2) : Stamp(i) < Stamp(i + 1)

\* C5: for a history with strictly increasing timestamps, the timestamps of
\* the points of every returned projection are non-decreasing.
C5_TimestampsMoveForward ==
    (Returned /\ StrictlyAscending) =>
        \A i \in 1..Len(result) :
            \A j \in 1..(Len(result[i].data) - 1) :
                Strptime(result[i].data[j].date)
                    <= Strptime(result[i].data[j + 1].date)

\* C6: the call never ends in an error (a division by zero, an index out of
\* range), whatever the history, anchor >= 0, horizon >= 0 and max_lines >= 1.
C6_NeverRaises ==
    (future_points >= 0 /\ num_lines >= 1) => pc # "raised"

ContractViolation ==
    \/ future_points < 0
    \/ num_lines <= 0
    \/ \E i \in 0..(Len(stock_data) - 2) : Stamp(i) > Stamp(i + 1)

\* C7: a call with a negative horizon, a non-positive max_lines or a history
\* whose timestamps are not ascending returns no projections.  (The claim also
\* asks for a validation error; the function has no such exit, so what a run
\* can show is whether projections come back.)
C7_ContractViolationsFailFast ==
    ContractViolation => ~(Returned /\ result # <<>>)

\* C8: the first point of every returned projection has exactly the date and
\* the price of history[anchor].
C8_StartsAtAnchor ==
    Returned =>
        \A i \in 1..Len(result) :
            LET line == result[i].data
            IN  /\ Len(line) >= 1
                /\ line[1].date = At(stock_data, start_idx).date
                /\ line[1].close[1] = Price(start_idx) * line[1].close[2]

C8_Witness ==
    /\ Returned
    /\ Len(result) >= 2
    /\ future_points >= 1
    /\ start_idx + 1 < Len(stock_data)
    /\ At(stock_data, start_idx).date.hour # 0
    /\ Price(start_idx) = 2
    /\ \A i \in 1..Len(result) : Len(result[i].data) >= 2

Degenerate ==
    \/ Len(stock_data) = 0
    \/ start_idx >= Len(stock_data)
    \/ start_idx < 2

\* C9: an empty history, an anchor at or past the end of the history and an
\* anchor below 2 give the empty list, and no error.
C9_DegenerateInputsEmpty ==
    Degenerate =>
        /\ pc # "raised"
        /\ future_projections = <<>>
        /\ Returned => result = <<>>

C9_Witness ==
    /\ Returned
    /\ result = <<>>
    /\ start_idx = 1
    /\ Len(stock_data) = MaxLen
    /\ future_points >= 1
    /\ num_lines >= 1

\* C10: for horizon >= 0 a projection backed by match (p, L) over n points has
\* exactly 1 + min(horizon, max(0, n - 1 - (p + L))) points, so at most
\* horizon + 1, and at least one future point when horizon >= 1.
C10_TruncatedNotPadded ==
    (Returned /\ future_points >= 0) =>
        \A i \in 1..Len(result) :
            LET start == result[i].key + result[i].pattern_length
                left  == Max(0, Len(stock_data) - 1 - start)
                count == Len(result[i].data)
            IN  /\ count = 1 + Min(future_points, left)
                /\ count <= future_points + 1
                /\ future_points >= 1 => count >= 2

C10_Witness ==
    /\ Returned
    /\ \E i \in 1..Len(result) :
          LET start == result[i].key + result[i].pattern_length
          IN  /\ Len(stock_data) - 1 - start < future_points
              /\ Len(result[i].data) = Len(stock_data) - start

AllPricesPositive == \A i \in 0..(Len(stock_data) - 1) : Price(i) > 0

\* history index of the first price step i of projection proj replays
ReplayIndex(proj, i) == proj.key + proj.pattern_length + i

\* the steps a projection replayed: one per point after the anchor
ReplayedSteps(proj) == 0..(Len(proj.data) - 2)

\* fractions <<num, den>> with positive denominators
FracLess(x, y) == x[1] * y[2] < y[1] * x[2]
FracEqual(x, y) == x[1] * y[2] = y[1] * x[2]

\* C11: over a history of positive prices, step i of a projection backed by
\* (p, L) uses k = p + L + i and gives
\* projected[i+1] * price[k+1] = projected[i] * price[k] exactly; so the
\* projected price rises exactly when the historical price fell from k to k+1
\* and stays equal when the two historical prices are equal.
C11_ReversedFractionalChange ==
    (Returned /\ AllPricesPositive) =>
        \A n \in 1..Len(result) :
            /\ result[n].data[1].close = <<Price(start_idx), 1>>
            /\ \A i \in ReplayedSteps(result[n]) :
                  LET k    == ReplayIndex(result[n], i)
                      prev == result[n].data[i + 1].close
                      next == result[n].data[i + 2].close
                  IN  /\ prev[2] > 0 /\ next[2] > 0
                      /\ next[1] * prev[2] * Price(k + 1)
                            = prev[1] * next[2] * Price(k)
                      /\ FracLess(prev, next) <=> Price(k + 1) < Price(k)
                      /\ Price(k + 1) = Price(k) => FracEqual(prev, next)

C11_Witness ==
    /\ Returned
    /\ AllPricesPositive
    /\ \E n \in 1..Len(result) :
          /\ \E i \in ReplayedSteps(result[n]) :
                /\ Price(ReplayIndex(result[n], i) + 1)
                      < Price(ReplayIndex(result[n], i))
                /\ FracLess(result[n].data[i + 1].close,
                            result[n].data[i + 2].close)
          /\ \E i \in ReplayedSteps(result[n]) :
                /\ Price(ReplayIndex(result[n], i) + 1)
                      = Price(ReplayIndex(result[n], i))
                /\ FracEqual(result[n].data[i + 1].close,
                             result[n].data[i + 2].close)

\* C12 as claimed: every history index a returned projection read for a
\* fractional change (k and k + 1 for each replayed step) is at most the
\* anchor index.
C12_ReplayStaysBeforeAnchor ==
    Returned =>
        \A n \in 1..Len(result) :
            \A i \in ReplayedSteps(result[n]) :
                ReplayIndex(result[n], i) + 1 <= start_idx

\* C12 amended: the first replayed step reads only indices up to the anchor,
\* and every replayed step reads indices inside the history; with the anchor
\* on the last point no step reads past the anchor.
C12_ReplayWithinHistory ==
    Returned =>
        \A n \in 1..Len(result) :
            /\ ReplayIndex(result[n], 0) + 1 <= start_idx
            /\ \A i \in ReplayedSteps(result[n]) :
                  /\ ReplayIndex(result[n], i) >= 0
                  /\ ReplayIndex(result[n], i) + 1 <= Len(stock_data) - 1
                  /\ start_idx = Len(stock_data) - 1
                        => ReplayIndex(result[n], i) + 1 <= start_idx

C12_Witness ==
    /\ Returned
    /\ future_points = MaxHorizon
    /\ start_idx < Len(stock_data) - 1
    /\ \E n \in 1..Len(result) :
          /\ Len(result[n].data) = future_points + 1
          /\ \E i \in ReplayedSteps(result[n]) :
                ReplayIndex(result[n], i) > start_idx

\* the needle of length L occurs at position q of the movements of the history
OccursAt(q, L) == \A j \in 0..(L - 1) : Move(q + j) = Move(start_idx - L + j)

\* the occurrences of the needle of length L, overlapping ones included, that
\* end strictly before the anchor
OccurrencesBeforeAnchor(L) == {q \in 0..(start_idx - L - 1) : OccursAt(q, L)}

\* C13: every returned projection with pattern length L is backed by a needle
\* with more than one occurrence ending strictly before the anchor; occurrences
\* that overlap or follow the anchor, the query's own occurrence included, do
\* not count.
C13_RecursBeforeAnchor ==
    Returned =>
        \A n \in 1..Len(result) :
            Cardinality(OccurrencesBeforeAnchor(result[n].pattern_length)) > 1

\* history index where projection proj starts to replay
ReplayStart(proj) == proj.key + proj.pattern_length

\* C14 as claimed: two distinct projections of one result never replay from
\* the same history index.
C14_DistinctReplayStarts ==
    Returned =>
        \A m, n \in 1..Len(result) :
            m # n => ReplayStart(result[m]) # ReplayStart(result[n])

\* C14 amended: two distinct projections of one result never have the same
\* match position.
C14_DistinctPositions ==
    Returned =>
        \A m, n \in 1..Len(result) :
            m # n => result[m].key # result[n].key

C14_Witness ==
    /\ Returned
    /\ \E m, n \in 1..Len(result) :
          /\ result[m].pattern_length = 8
          /\ result[n].pattern_length = 7
          /\ result[n].key = result[m].key + 1
          /\ result[n].data = result[m].data
          /\ Len(result[m].data) >= 2

\* C15: the call returns the empty list whenever the anchor index is at most 8
\* and whenever the history has at most 20 points.
C15_MinimumData ==
    (start_idx <= 8 \/ Len(stock_data) <= 20) =>
        /\ pc # "raised"
        /\ future_projections = <<>>
        /\ Returned => result = <<>>

\* the anchor, not the amount of data, decides: the needle of length 8 has more
\* than one occurrence in the haystack, and the anchor is 8
C15_Witness ==
    /\ Returned
    /\ result = <<>>
    /\ start_idx = 8
    /\ Len(stock_data) >= 25
    /\ future_points >= 1
    /\ num_lines >= 1
    /\ Len(Occurrences(8)) > 1

\* C15, second part: a history of 21 points gives a non-empty result for some
\* anchor
C15_NonEmptyAt21 ==
    /\ Returned
    /\ Len(stock_data) = 21
    /\ result # <<>>

====
